---- MODULE Spec2Model ----
(***************************************************************************)
(* Model of apio/pkg_util.py: the environment composer                     *)
(* (set_env_for_packages) and the package verifier                         *)
(* (check_required_packages).                                              *)
(*                                                                         *)
(* Strings are sequences of tokens.  A path fragment is a one-token        *)
(* string, os.pathsep is the token PATHSEP, a version "1.2.3" is           *)
(* <<"1", ".", "2", ".", "3">>.                                            *)
(***************************************************************************)
EXTENDS Integers, Sequences, FiniteSets, TLC

VARIABLES
    resources,              \* resources.platform_packages of this process
    windows,                \* util.is_windows() of this process
    env_calls,              \* number of set_env_for_packages calls made
    environ,                \* os.environ: name -> string, domain = the set names
    ENV_ALREADY_SET_FLAG,   \* pkg_util.__ENV_ALREADY_SET_FLAG
    env_result,             \* how the last set_env_for_packages call ended
    env_out,                \* the lines the last set_env_for_packages call printed
    env_applied,            \* history: registry and environ of the applying call
    catalog,                \* resources + profile read by check_required_packages
    required,               \* required_packages_names of the last check call
    check_result            \* outcome, output and lookups of the last check call

vars == <<resources, windows, env_calls, environ, ENV_ALREADY_SET_FLAG,
          env_result, env_out, env_applied, catalog, required, check_result>>

env_vars == <<resources, windows, env_calls, environ, ENV_ALREADY_SET_FLAG,
              env_result, env_out, env_applied>>

check_vars == <<catalog, required, check_result>>

\* ---------------------------------------------------------------- bounds

\* Largest number of packages in resources.platform_packages.
MaxPkgs == 2

\* Largest number of set_env_for_packages calls in a process.
MaxCalls == 3

\* Largest length of required_packages_names.
MaxReq == 2

\* ---------------------------------------------------------------- strings

\* os.pathsep: ";" on Windows, ":" elsewhere.
PATHSEP == IF windows THEN ";" ELSE ":"

\* sep.join(items): the items with sep between consecutive ones.
RECURSIVE Join(_, _)
Join(sep, items) ==
    IF Len(items) = 0 THEN <<>>
    ELSE IF Len(items) = 1 THEN items[1]
    ELSE items[1] \o <<sep>> \o Join(sep, Tail(items))

\* s.split(sep): the maximal sep-free pieces of s, empty ones included.
RECURSIVE Split(_, _)
Split(s, sep) ==
    IF \A i \in 1..Len(s) : s[i] # sep THEN <<s>>
    ELSE LET k == CHOOSE i \in 1..Len(s) :
                      s[i] = sep /\ \A j \in 1..(i - 1) : s[j] # sep
         IN  <<SubSeq(s, 1, k - 1)>> \o Split(SubSeq(s, k + 1, Len(s)), sep)

\* reversed(s)
Reverse(s) == [i \in 1..Len(s) |-> s[Len(s) + 1 - i]]

\* ---------------------------------------------------------------- registry

\* A package_config without an "env" section.
NoEnv == [has_env |-> FALSE, path |-> <<>>, vars |-> <<>>]

\* package_config["env"] with its "path" list and its "vars" dict, the
\* dict as its (name, value) items in iteration order.
EnvSection(path_list, vars_section) ==
    [has_env |-> TRUE, path |-> path_list, vars |-> vars_section]

\* A "vars" value that is no str, the JSON number 1.
NotAStr == <<"int", "1">>

\* The package configs the registries are built from.  The last three
\* declare a variable os.environ refuses: a name with "=", an empty
\* name, a value that is no str.
PackageConfigs ==
    { NoEnv,
      EnvSection(<<>>, <<>>),
      EnvSection(<< <<"a">> >>, << <<"X", <<"1">> >> >>),
      EnvSection(<< <<"b">>, <<"c">> >>, << <<"X", <<"2">> >> >>),
      EnvSection(<< <<"c">>, <<"a">> >>, <<>>),
      EnvSection(<<>>, << <<"Y", <<"1">> >>, <<"X", <<"3">> >> >>),
      EnvSection(<< <<"a">> >>, << <<"A=B", <<"1">> >> >>),
      EnvSection(<< <<"a">> >>, << <<"Y", <<"1">> >>, <<"", <<"2">> >> >>),
      EnvSection(<< <<"b">> >>, << <<"X", NotAStr>> >>) }

\* resources.platform_packages.items(): the configs in declaration order.
Registries == UNION { [1..n -> PackageConfigs] : n \in 0..MaxPkgs }

\* The values os.environ may hold at process start.
InitialEnvirons ==
    { <<>>,
      [n \in {"PATH"} |-> <<>>],
      [n \in {"PATH"} |-> <<"/bin">>],
      [n \in {"PATH", "X"} |->
          IF n = "PATH" THEN <<"/usr/bin", PATHSEP, "/bin">> ELSE <<"0">>] }

\* The names with "=" in them.
NamesWithEquals == {"A=B"}

\* What os.environ[name] = value raises, "" when it assigns: TypeError
\* from encodevalue for a value that is no str, then putenv's OSError for
\* an empty name and ValueError for a name with "=".
SetItemError(name, value) ==
    IF value = NotAStr THEN "TypeError"
    ELSE IF name = "" THEN "OSError"
    ELSE IF name \in NamesWithEquals THEN "ValueError"
    ELSE ""

\* os.environ[name] = value, when it assigns
SetItem(env, name, value) ==
    [n \in DOMAIN env \cup {name} |-> IF n = name THEN value ELSE env[n]]

\* ---------------------------------------------------------------- composer

\* Variant: each package's paths are put in front of the ones collected
\* so far.
RECURSIVE CollectMutations_prepend(_, _, _)
CollectMutations_prepend(registry, i, result) ==
    IF i > Len(registry) THEN result
    ELSE IF ~registry[i].has_env
         THEN [raised |-> "AssertionError", paths |-> <<>>, vars |-> <<>>]
         ELSE CollectMutations_prepend(registry, i + 1,
                  [raised |-> "",
                   paths  |-> registry[i].path \o result.paths,
                   vars   |-> result.vars \o registry[i].vars])

\* _get_env_mutations_for_packages: the EnvMutations collected over the
\* packages in order, or the AssertionError of a config without "env".
RECURSIVE CollectMutations(_, _, _)
CollectMutations(registry, i, result) ==
    IF i > Len(registry) THEN result
    ELSE IF ~registry[i].has_env
         THEN [raised |-> "AssertionError", paths |-> <<>>, vars |-> <<>>]
         ELSE CollectMutations(registry, i + 1,
                  [raised |-> "",
                   paths  |-> result.paths \o registry[i].path,
                   vars   |-> result.vars \o registry[i].vars])

get_env_mutations_for_packages(registry) ==
    CollectMutations(registry, 1,
                     [raised |-> "", paths |-> <<>>, vars |-> <<>>])

\* Variant: a name that is already set keeps its value.
RECURSIVE ApplyVars_keep_first(_, _, _)
ApplyVars_keep_first(env, pairs, i) ==
    IF i > Len(pairs) THEN [raised |-> "", env |-> env]
    ELSE IF pairs[i][1] \in DOMAIN env
    THEN ApplyVars_keep_first(env, pairs, i + 1)
    ELSE IF SetItemError(pairs[i][1], pairs[i][2]) # ""
    THEN [raised |-> SetItemError(pairs[i][1], pairs[i][2]), env |-> env]
    ELSE ApplyVars_keep_first(SetItem(env, pairs[i][1], pairs[i][2]),
                              pairs, i + 1)

\* The loop of _apply_env_mutations over mutations.vars: the environ it
\* leaves and the exception that ended it, "" when it ran to the end.
\* The assignments made before the one that raises stay.
RECURSIVE ApplyVars(_, _, _)
ApplyVars(env, pairs, i) ==
    IF i > Len(pairs) THEN [raised |-> "", env |-> env]
    ELSE IF SetItemError(pairs[i][1], pairs[i][2]) # ""
    THEN [raised |-> SetItemError(pairs[i][1], pairs[i][2]), env |-> env]
    ELSE ApplyVars(SetItem(env, pairs[i][1], pairs[i][2]), pairs, i + 1)

\* Variant: the collected paths are reversed before the join.
NewPathValue_reversed(paths, old_val) ==
    Join(PATHSEP, Reverse(paths) \o <<old_val>>)

\* The PATH value _apply_env_mutations builds from mutations.paths and the
\* old value.
NewPathValue(paths, old_val) == Join(PATHSEP, paths \o <<old_val>>)

\* _apply_env_mutations on an environ that has PATH: PATH is written
\* first, then the variables; the environ left and the exception raised.
apply_env_mutations(env, mutations) ==
    ApplyVars(SetItem(env, "PATH", NewPathValue(mutations.paths, env["PATH"])),
              mutations.vars, 1)

\* The line _dump_env_mutations prints for a path and for a variable.
DumpPathLine(p, is_windows) ==
    IF is_windows THEN <<"@set ", "PATH", "=">> \o p \o <<";%PATH%">>
    ELSE <<"PATH", "=\"">> \o p \o <<":$PATH\"">>

\* What an f-string makes of a "vars" value: the number 1 prints as 1.
Str(val) == IF val = NotAStr THEN <<"1">> ELSE val

DumpVarLine(name, val, is_windows) ==
    IF is_windows THEN <<"@set ", name, "=">> \o Str(val)
    ELSE <<name, "=\"">> \o Str(val) \o <<"\"">>

\* _dump_env_mutations: the header, a line per path, last collected
\* first, then a line per variable in collected order.
dump_env_mutations(mutations, is_windows) ==
    << <<"Envirnment settings:">> >>
    \o [k \in 1..Len(mutations.paths) |->
           DumpPathLine(Reverse(mutations.paths)[k], is_windows)]
    \o [k \in 1..Len(mutations.vars) |->
           DumpVarLine(mutations.vars[k][1], mutations.vars[k][2], is_windows)]

\* set_env_for_packages(resources, verbose): the mutations are collected
\* (AssertionError for a config without "env"), dumped when verbose, and
\* applied when the flag is unset (KeyError when environ has no PATH).
\* An exception of the application leaves the call with what was
\* assigned so far and the flag still unset.
set_env_for_packages(registry, verbose) ==
    LET mutations == get_env_mutations_for_packages(registry)
        dump      == IF verbose THEN dump_env_mutations(mutations, windows)
                     ELSE <<>>
        applied   == apply_env_mutations(environ, mutations)
    IN  IF mutations.raised # ""
        THEN /\ env_result' = mutations.raised
             /\ env_out' = <<>>
             /\ UNCHANGED <<environ, ENV_ALREADY_SET_FLAG, env_applied>>
        ELSE IF ENV_ALREADY_SET_FLAG
        THEN /\ env_result' = "returned"
             /\ env_out' = dump
             /\ UNCHANGED <<environ, ENV_ALREADY_SET_FLAG, env_applied>>
        ELSE IF "PATH" \notin DOMAIN environ
        THEN /\ env_result' = "KeyError"
             /\ env_out' = dump
             /\ UNCHANGED <<environ, ENV_ALREADY_SET_FLAG, env_applied>>
        ELSE IF applied.raised # ""
        THEN /\ environ' = applied.env
             /\ env_result' = applied.raised
             /\ env_out' = dump
             /\ UNCHANGED <<ENV_ALREADY_SET_FLAG, env_applied>>
        ELSE /\ environ' = applied.env
             /\ ENV_ALREADY_SET_FLAG' = TRUE
             /\ env_result' = "returned"
             /\ env_out' = IF verbose THEN dump
                           ELSE << <<"Setting the envinronment.">> >>
             /\ env_applied' = [registry |-> registry, old |-> environ]

\* A call of set_env_for_packages with the resources of the process.
SetEnv ==
    /\ env_calls < MaxCalls
    /\ \E verbose \in BOOLEAN : set_env_for_packages(resources, verbose)
    /\ env_calls' = env_calls + 1
    /\ UNCHANGED <<resources, windows>>
    /\ UNCHANGED check_vars

\* ---------------------------------------------------------------- versions

\* The numeric tokens of a version and their values.
NumVal == [t \in {"0", "1", "2", "3"} |-> CASE t = "0" -> 0 [] t = "1" -> 1
                                               [] t = "2" -> 2 [] t = "3" -> 3]

\* Whether s reads major.minor.patch, three numbers.
IsFullVersion(s) ==
    /\ Len(s) = 5
    /\ s[2] = "." /\ s[4] = "."
    /\ \A i \in {1, 3, 5} : s[i] \in DOMAIN NumVal

\* semantic_version.Version(s): the numbers of s, or ValueError.
Version(s) ==
    IF IsFullVersion(s)
    THEN [raised |-> "", key |-> <<NumVal[s[1]], NumVal[s[3]], NumVal[s[5]]>>]
    ELSE [raised |-> "ValueError", key |-> <<>>]

\* The comparison operators of a simple spec block.
SpecOps == {"<", "<=", "==", "=", ">=", ">", "!="}

\* semantic_version.SimpleSpec(s) for a single block, an operator (none
\* reads as ==) followed by a full version; ValueError for a block that
\* does not read so, the empty string among them.
SimpleSpec(s) ==
    LET has_op == Len(s) > 0 /\ s[1] \in SpecOps
        rest   == IF has_op THEN Tail(s) ELSE s
        target == Version(rest)
    IN  IF target.raised # ""
        THEN [raised |-> "ValueError", op |-> "", key |-> <<>>]
        ELSE [raised |-> "",
              op     |-> IF has_op /\ s[1] # "=" THEN s[1] ELSE "==",
              key    |-> target.key]

\* Precedence of two versions: -1, 0 or 1.
Cmp(a, b) ==
    IF a = b THEN 0
    ELSE LET k == CHOOSE i \in 1..3 :
                      a[i] # b[i] /\ \A j \in 1..(i - 1) : a[j] = b[j]
         IN  IF a[k] < b[k] THEN -1 ELSE 1

\* semver in spec
SpecContains(spec, semver) ==
    LET c == Cmp(semver.key, spec.key)
    IN  CASE spec.op = "<"  -> c < 0
          [] spec.op = "<=" -> c <= 0
          [] spec.op = "==" -> c = 0
          [] spec.op = ">=" -> c >= 0
          [] spec.op = ">"  -> c > 0
          [] spec.op = "!=" -> c # 0

\* _version_matches(current_version, spec_version): the spec is built
\* first and outside the try, so its ValueError propagates; the version's
\* ValueError is caught and yields False.
version_matches(current_version, spec_version) ==
    LET spec   == SimpleSpec(spec_version)
        semver == Version(current_version)
    IN  IF spec.raised # "" THEN [raised |-> spec.raised, value |-> FALSE]
        ELSE IF semver.raised # "" THEN [raised |-> "", value |-> FALSE]
        ELSE [raised |-> "", value |-> SpecContains(spec, semver)]

\* ---------------------------------------------------------------- verifier

\* The package names of the model.
PkgNames == {"p", "q"}

\* Installed version strings and constraint strings of the model.
VersionStrings == { <<"1", ".", "2", ".", "3">>, <<"not-a-version">> }

ConstraintStrings ==
    { <<">=", "1", ".", "0", ".", "0">>, <<">=", "2", ".", "0", ".", "0">>,
      <<"bad">> }

\* An optional string: None, or a string.
None == [none |-> TRUE, str |-> <<>>]

Some(s) == [none |-> FALSE, str |-> s]

\* What profile.packages holds for a name: no record, a record without
\* "version", or a record with one.
ProfileEntries ==
    { [record |-> FALSE, has_version |-> FALSE, version |-> <<>>],
      [record |-> TRUE, has_version |-> FALSE, version |-> <<>>] }
    \cup { [record |-> TRUE, has_version |-> TRUE, version |-> v] :
              v \in VersionStrings }

\* What resources and the profile hold for one name:
\*   known     name in resources.all_packages
\*   platform  name in resources.platform_packages
\*   profile   profile.packages entry
\*   spec      resources.distribution["packages"] entry, None if absent
\*   dir       resources.get_package_dir(name): "none" for no path,
\*             "dir" for a path that is a directory, "missing" otherwise
UnknownEntry ==
    [known |-> FALSE, platform |-> FALSE,
     profile |-> [record |-> FALSE, has_version |-> FALSE, version |-> <<>>],
     spec |-> None, dir |-> "none"]

KnownEntries ==
    [known : {TRUE}, platform : BOOLEAN, profile : ProfileEntries,
     spec : {None} \cup {Some(c) : c \in ConstraintStrings},
     dir : {"none", "dir", "missing"}]

Catalogs == [PkgNames -> KnownEntries \cup {UnknownEntry}]

\* installed_packages.get(package_name, {}).get("version", None)
InstalledVersion(entry) ==
    IF entry.profile.record /\ entry.profile.has_version
    THEN Some(entry.profile.version)
    ELSE None

\* spec_packages.get(package_name, "")
SpecVersion(entry) == IF entry.spec.none THEN <<>> ELSE entry.spec.str

\* A printed line.
Line(kind, pkg, version, spec) ==
    [kind |-> kind, pkg |-> pkg, version |-> version, spec |-> spec]

\* Variant: the hint names no package, only the reinstall of all.
show_package_install_instructions_generic(package_name) ==
    << Line("install_instructions", "", <<>>, <<>>) >>

\* _show_package_install_instructions(package_name)
show_package_install_instructions(package_name) ==
    << Line("install_instructions", package_name, <<>>, <<>>) >>

\* An error line, the install instructions, then sys.exit(1).
UserError(line, package_name) ==
    [ended |-> "SystemExit", status |-> 1,
     out |-> <<line>> \o show_package_install_instructions(package_name)]

\* A single check that ends with an exception, or returns.
Raised(exception) == [ended |-> exception, status |-> 0, out |-> <<>>]

Returned == [ended |-> "returned", status |-> 0, out |-> <<>>]

\* Variant: the version is matched before the test for None, a None
\* version reading as a string that is no version.
check_required_package_version_first(package_name, current_version, spec_version, dir) ==
    LET m == version_matches(current_version.str, spec_version)
    IN  IF m.raised # "" THEN Raised(m.raised)
        ELSE IF current_version.none
        THEN UserError(Line("not_installed", package_name, <<>>, <<>>),
                       package_name)
        ELSE IF ~m.value
        THEN UserError(Line("version_mismatch", package_name,
                            current_version.str, spec_version), package_name)
        ELSE IF dir = "missing"
        THEN UserError(Line("installed_but_missing", package_name, <<>>, <<>>),
                       package_name)
        ELSE Returned

\* Variant: a package without a directory path is reported as missing.
check_required_package_dir_required(package_name, current_version, spec_version, dir) ==
    IF current_version.none
    THEN UserError(Line("not_installed", package_name, <<>>, <<>>),
                   package_name)
    ELSE LET m == version_matches(current_version.str, spec_version)
         IN  IF m.raised # "" THEN Raised(m.raised)
             ELSE IF ~m.value
             THEN UserError(Line("version_mismatch", package_name,
                                 current_version.str, spec_version),
                            package_name)
             ELSE IF dir # "dir"
             THEN UserError(Line("installed_but_missing", package_name,
                                 <<>>, <<>>), package_name)
             ELSE Returned

\* _check_required_package: how it ends ("returned", "SystemExit" with
\* its status, or the exception raised; status is 0 when it did not exit)
\* and what it prints.  dir is what resources.get_package_dir gives.
check_required_package(package_name, current_version, spec_version, dir) ==
    IF current_version.none
    THEN UserError(Line("not_installed", package_name, <<>>, <<>>),
                   package_name)
    ELSE LET m == version_matches(current_version.str, spec_version)
         IN  IF m.raised # "" THEN Raised(m.raised)
             ELSE IF ~m.value
             THEN UserError(Line("version_mismatch", package_name,
                                 current_version.str, spec_version),
                            package_name)
             ELSE IF dir = "missing"
             THEN UserError(Line("installed_but_missing", package_name,
                                 <<>>, <<>>), package_name)
             ELSE Returned

\* Variant: a failed check is remembered and the loop goes on; the
\* failures are reported together at the end.
RECURSIVE CheckLoop_aggregate(_, _, _, _)
CheckLoop_aggregate(names, cat, i, checked) ==
    IF i > Len(names)
    THEN [ended |-> "returned", status |-> 0, out |-> <<>>,
          unknown |-> "", checked |-> checked]
    ELSE LET name  == names[i]
             entry == cat[name]
         IN  IF ~entry.known
             THEN [ended |-> "RuntimeError", status |-> 0, out |-> <<>>,
                   unknown |-> name, checked |-> checked]
             ELSE IF ~entry.platform
             THEN CheckLoop_aggregate(names, cat, i + 1, checked)
             ELSE LET r == check_required_package(name,
                               InstalledVersion(entry), SpecVersion(entry),
                               entry.dir)
                      rest == CheckLoop_aggregate(names, cat, i + 1,
                                                  Append(checked, name))
                  IN  IF r.ended = "returned" THEN rest
                      ELSE [ended |-> r.ended, status |-> r.status,
                            out |-> r.out \o rest.out, unknown |-> "",
                            checked |-> rest.checked]

\* Variant: a name that is not in all_packages is skipped like a name
\* that is not in platform_packages.
RECURSIVE CheckLoop_skip_unknown(_, _, _, _)
CheckLoop_skip_unknown(names, cat, i, checked) ==
    IF i > Len(names)
    THEN [ended |-> "returned", status |-> 0, out |-> <<>>,
          unknown |-> "", checked |-> checked]
    ELSE LET name  == names[i]
             entry == cat[name]
         IN  IF ~entry.known \/ ~entry.platform
             THEN CheckLoop_skip_unknown(names, cat, i + 1, checked)
             ELSE LET r == check_required_package(name,
                               InstalledVersion(entry), SpecVersion(entry),
                               entry.dir)
                  IN  IF r.ended = "returned"
                      THEN CheckLoop_skip_unknown(names, cat, i + 1,
                                                  Append(checked, name))
                      ELSE [ended |-> r.ended, status |-> r.status,
                            out |-> r.out, unknown |-> "",
                            checked |-> Append(checked, name)]

\* Variant: a package that is not in platform_packages is checked like
\* the others.
RECURSIVE CheckLoop_no_platform_skip(_, _, _, _)
CheckLoop_no_platform_skip(names, cat, i, checked) ==
    IF i > Len(names)
    THEN [ended |-> "returned", status |-> 0, out |-> <<>>,
          unknown |-> "", checked |-> checked]
    ELSE LET name  == names[i]
             entry == cat[name]
         IN  IF ~entry.known
             THEN [ended |-> "RuntimeError", status |-> 0, out |-> <<>>,
                   unknown |-> name, checked |-> checked]
             ELSE LET r == check_required_package(name,
                               InstalledVersion(entry), SpecVersion(entry),
                               entry.dir)
                  IN  IF r.ended = "returned"
                      THEN CheckLoop_no_platform_skip(names, cat, i + 1,
                                                      Append(checked, name))
                      ELSE [ended |-> r.ended, status |-> r.status,
                            out |-> r.out, unknown |-> "",
                            checked |-> Append(checked, name)]

\* The loop of check_required_packages from index i on.  checked is the
\* names handed to _check_required_package so far, unknown the name of
\* the RuntimeError.
RECURSIVE CheckLoop(_, _, _, _)
CheckLoop(names, cat, i, checked) ==
    IF i > Len(names)
    THEN [ended |-> "returned", status |-> 0, out |-> <<>>,
          unknown |-> "", checked |-> checked]
    ELSE LET name  == names[i]
             entry == cat[name]
         IN  IF ~entry.known
             THEN [ended |-> "RuntimeError", status |-> 0, out |-> <<>>,
                   unknown |-> name, checked |-> checked]
             ELSE IF ~entry.platform
             THEN CheckLoop(names, cat, i + 1, checked)
             ELSE LET r == check_required_package(name,
                               InstalledVersion(entry), SpecVersion(entry),
                               entry.dir)
                  IN  IF r.ended = "returned"
                      THEN CheckLoop(names, cat, i + 1,
                                     Append(checked, name))
                      ELSE [ended |-> r.ended, status |-> r.status,
                            out |-> r.out, unknown |-> "",
                            checked |-> Append(checked, name)]

\* check_required_packages(required_packages_names, resources)
check_required_packages(names, cat) == CheckLoop(names, cat, 1, <<>>)

\* The lists of required names.
RequiredLists == UNION { [1..n -> PkgNames] : n \in 0..MaxReq }

NotCalled ==
    [ended |-> "none", status |-> 0, out |-> <<>>, unknown |-> "",
     checked |-> <<>>]

CheckRequired ==
    /\ \E names \in RequiredLists :
           /\ required' = names
           /\ check_result' = check_required_packages(names, catalog)
    /\ UNCHANGED catalog
    /\ UNCHANGED env_vars

\* ---------------------------------------------------------------- specifications

\* The state when no call was made yet.
NotApplied == [registry |-> <<>>, old |-> <<>>]

\* The composer: the process starts with its resources and platform, some
\* environ and the flag unset; the verifier is not called and its state
\* stays as constructed.
InitEnv ==
    /\ resources \in Registries
    /\ windows \in BOOLEAN
    /\ env_calls = 0
    /\ environ \in InitialEnvirons
    /\ ENV_ALREADY_SET_FLAG = FALSE
    /\ env_result = "none"
    /\ env_out = <<>>
    /\ env_applied = NotApplied
    /\ catalog = [n \in PkgNames |-> UnknownEntry]
    /\ required = <<>>
    /\ check_result = NotCalled

NextEnv == SetEnv

SpecEnv == InitEnv /\ [][NextEnv]_vars

\* The verifier: resources and the profile are as loaded; the composer is
\* not called and its state stays as constructed.
InitVerify ==
    /\ resources = <<>>
    /\ windows = FALSE
    /\ env_calls = 0
    /\ environ = [n \in {"PATH"} |-> <<"/bin">>]
    /\ ENV_ALREADY_SET_FLAG = FALSE
    /\ env_result = "none"
    /\ env_out = <<>>
    /\ env_applied = NotApplied
    /\ catalog \in Catalogs
    /\ required = <<>>
    /\ check_result = NotCalled

NextVerify == CheckRequired

SpecVerify == InitVerify /\ [][NextVerify]_vars

\* ---------------------------------------------------------------- composer claims

\* The PATH entries of an environ, and the path fragments of the applying
\* call's registry, package by package in declaration order.
PathEntries(env) == Split(env["PATH"], PATHSEP)

RECURSIVE DeclaredPaths(_)
DeclaredPaths(registry) ==
    IF Len(registry) = 0 THEN <<>>
    ELSE DeclaredPaths(SubSeq(registry, 1, Len(registry) - 1))
         \o registry[Len(registry)].path

\* C1 as stated: after the first (applying) call the final PATH is the
\* reverse of the concatenation of the packages' paths, followed by the
\* original PATH.
C1_ReversedThenOriginal ==
    ENV_ALREADY_SET_FLAG =>
        PathEntries(environ) =
            Reverse(DeclaredPaths(env_applied.registry))
            \o PathEntries(env_applied.old)

\* C1 amended: after the first (applying) call the final PATH is the
\* concatenation of the packages' paths in declaration order, not
\* reversed, followed by the original PATH.
C1_DeclaredThenOriginal ==
    ENV_ALREADY_SET_FLAG =>
        PathEntries(environ) =
            DeclaredPaths(env_applied.registry) \o PathEntries(env_applied.old)

\* Two packages with three fragments between them were applied in front of
\* a two-entry PATH.
C1_Witness ==
    /\ ENV_ALREADY_SET_FLAG
    /\ Len(env_applied.registry) = 2
    /\ env_applied.registry[1].path = << <<"b">>, <<"c">> >>
    /\ env_applied.registry[2].path = << <<"a">> >>
    /\ Len(PathEntries(env_applied.old)) = 2
    /\ Len(PathEntries(environ)) = 5

\* C2: declaration order is PATH priority order.  Of two declared
\* fragments the one collected first (earlier package, or earlier in the
\* same package) stands at the earlier PATH position, every declared
\* fragment stands before the entries of the original PATH, and the first
\* path of the first-declared package is the first PATH entry.
C2_DeclarationOrderIsPriority ==
    ENV_ALREADY_SET_FLAG =>
        LET reg     == env_applied.registry
            entries == PathEntries(environ)
            n_old   == Len(PathEntries(env_applied.old))
            Frags   == {pm \in (1..Len(reg)) \X (1..Len(entries)) :
                           pm[2] <= Len(reg[pm[1]].path)}
            Before(x, y) == x[1] < y[1] \/ (x[1] = y[1] /\ x[2] < y[2])
            Pos(x)  == 1 + Cardinality({y \in Frags : Before(y, x)})
        IN  /\ \A x \in Frags :
                   /\ Pos(x) <= Len(entries) - n_old
                   /\ entries[Pos(x)] = reg[x[1]].path[x[2]]
            /\ \A x, y \in Frags : Before(x, y) => Pos(x) < Pos(y)
            /\ SubSeq(entries, Len(entries) - n_old + 1, Len(entries))
                   = PathEntries(env_applied.old)
            /\ (Len(reg) > 0 /\ Len(reg[1].path) > 0)
                   => entries[1] = reg[1].path[1]

\* The first-declared package put two fragments, the second one more, and
\* the first PATH entry is the first fragment of the first package.
C2_Witness ==
    /\ ENV_ALREADY_SET_FLAG
    /\ Len(env_applied.registry) = 2
    /\ env_applied.registry[1].path = << <<"c">>, <<"a">> >>
    /\ env_applied.registry[2].path = << <<"b">>, <<"c">> >>
    /\ PathEntries(environ)[1] = <<"c">>
    /\ PathEntries(environ)[4] = <<"c">>
    /\ env_applied.old["PATH"] = <<"/bin">>

\* C3 as stated: the environment is mutated at most once.  A call changes
\* environ only if the flag was unset and it sets it; the flag is set
\* exactly by a call that finds it unset and returns; once set it stays
\* set and environ stays what the one application made of the original
\* environ.  A call whose application raises after writing PATH changes
\* environ and leaves the flag unset, so the next call writes PATH again.
C3_MutatedAtMostOnce ==
    [][ /\ (environ' # environ) => (~ENV_ALREADY_SET_FLAG /\ ENV_ALREADY_SET_FLAG')
        /\ (~ENV_ALREADY_SET_FLAG /\ env_result' = "returned")
               <=> (~ENV_ALREADY_SET_FLAG /\ ENV_ALREADY_SET_FLAG')
        /\ ENV_ALREADY_SET_FLAG => (ENV_ALREADY_SET_FLAG' /\ environ' = environ)
        /\ ENV_ALREADY_SET_FLAG' =>
               environ' = apply_env_mutations(env_applied'.old,
                              get_env_mutations_for_packages(env_applied'.registry)).env
      ]_vars

\* The value a package's "vars" section gives a name.
Declares(config, name) ==
    \E k \in 1..Len(config.vars) : config.vars[k][1] = name

Declared(config, name) ==
    config.vars[CHOOSE k \in 1..Len(config.vars) : config.vars[k][1] = name][2]

\* C11: later wins.  When two packages of the applied registry declare
\* the same variable with different values, both pairs stand in the
\* EnvMutations in declaration order, none overwritten, and after the
\* applying call the variable has the value of the later package, the
\* last one that declares it.
C11_LaterVariableWins ==
    ENV_ALREADY_SET_FLAG =>
        LET reg   == env_applied.registry
            pairs == get_env_mutations_for_packages(reg).vars
            Names == {"X", "Y"}
        IN  \A name \in Names : \A i, j \in 1..Len(reg) :
                (/\ i < j
                 /\ Declares(reg[i], name) /\ Declares(reg[j], name)
                 /\ Declared(reg[i], name) # Declared(reg[j], name)
                 /\ \A k \in (j + 1)..Len(reg) : ~Declares(reg[k], name))
                =>  /\ name \in DOMAIN environ
                    /\ environ[name] = Declared(reg[j], name)
                    /\ environ[name] # Declared(reg[i], name)
                    /\ \E a, b \in 1..Len(pairs) :
                           /\ a < b
                           /\ pairs[a] = <<name, Declared(reg[i], name)>>
                           /\ pairs[b] = <<name, Declared(reg[j], name)>>
                    /\ Cardinality({a \in 1..Len(pairs) : pairs[a][1] = name})
                           = Cardinality({k \in 1..Len(reg) :
                                             Declares(reg[k], name)})

\* The first package declared X = 1, the second X = 2, over an environ
\* that already had X = 0, and X is 2.
C11_Witness ==
    /\ ENV_ALREADY_SET_FLAG
    /\ Len(env_applied.registry) = 2
    /\ env_applied.registry[1].vars = << <<"X", <<"1">> >> >>
    /\ env_applied.registry[2].vars = << <<"X", <<"2">> >> >>
    /\ "X" \in DOMAIN env_applied.old
    /\ env_applied.old["X"] = <<"0">>
    /\ environ["X"] = <<"2">>

\* ---------------------------------------------------------------- verifier claims

\* A call was made and its first required name is a known package of
\* this platform, so the single check of that name is what runs first.
FirstIsChecked ==
    /\ check_result.ended # "none"
    /\ Len(required) >= 1
    /\ catalog[required[1]].known
    /\ catalog[required[1]].platform

FirstEntry == catalog[required[1]]

HasVersion(entry) == entry.profile.record /\ entry.profile.has_version

\* The printed lines of a user error: the error line, then the hint that
\* names the package.
Hint(name) == Line("install_instructions", name, <<>>, <<>>)

ErrorKinds == {"not_installed", "version_mismatch", "installed_but_missing"}

\* The single check of a name with what the catalog holds for it, and
\* whether it ends the call.
SingleCheck(name) ==
    check_required_package(name, InstalledVersion(catalog[name]),
                           SpecVersion(catalog[name]), catalog[name].dir)

Fails(name) ==
    /\ catalog[name].known
    /\ catalog[name].platform
    /\ SingleCheck(name).ended # "returned"

\* C4: a required, platform-applicable package with no installed version
\* (no record, or a record without a version) is reported as not
\* installed with exit status 1, whatever the constraint (absent,
\* malformed) and the directory state.
C4_NotInstalled ==
    (FirstIsChecked /\ ~HasVersion(FirstEntry)) =>
        /\ check_result.ended = "SystemExit"
        /\ check_result.status = 1
        /\ check_result.out =
               << Line("not_installed", required[1], <<>>, <<>>),
                  Hint(required[1]) >>
        /\ check_result.checked = << required[1] >>

\* A package with a record without a version, a malformed constraint and
\* a missing directory was reported as not installed.
C4_Witness ==
    /\ FirstIsChecked
    /\ FirstEntry.profile.record /\ ~FirstEntry.profile.has_version
    /\ FirstEntry.spec = Some(<<"bad">>)
    /\ FirstEntry.dir = "missing"
    /\ check_result.ended = "SystemExit"
    /\ check_result.out[1].kind = "not_installed"

\* C5 as stated: an installed version that fails to parse, or that does
\* not satisfy the constraint, is reported as a version mismatch with
\* exit status 1, never an exception, whatever the directory state.
C5_MismatchNeverRaises ==
    (/\ FirstIsChecked
     /\ HasVersion(FirstEntry)
     /\ \/ Version(FirstEntry.profile.version).raised # ""
        \/ /\ SimpleSpec(SpecVersion(FirstEntry)).raised = ""
           /\ ~SpecContains(SimpleSpec(SpecVersion(FirstEntry)),
                            Version(FirstEntry.profile.version)))
    =>  /\ check_result.ended = "SystemExit"
        /\ check_result.status = 1
        /\ check_result.out =
               << Line("version_mismatch", required[1],
                       FirstEntry.profile.version, SpecVersion(FirstEntry)),
                  Hint(required[1]) >>

\* C6: when the installed version satisfies the constraint, the package
\* is reported as installed but missing (exit status 1) exactly when the
\* directory lookup gives a path that is no directory; with no path, or
\* with a directory, the check prints nothing and the call goes on.
C6_DirectoryDecides ==
    (/\ FirstIsChecked
     /\ HasVersion(FirstEntry)
     /\ version_matches(FirstEntry.profile.version, SpecVersion(FirstEntry))
            = [raised |-> "", value |-> TRUE])
    =>  /\ (FirstEntry.dir = "missing") <=>
               /\ check_result.ended = "SystemExit"
               /\ check_result.checked = << required[1] >>
        /\ (FirstEntry.dir = "missing") =>
               /\ check_result.status = 1
               /\ check_result.out =
                      << Line("installed_but_missing", required[1], <<>>, <<>>),
                         Hint(required[1]) >>
        /\ (FirstEntry.dir # "missing") =>
               /\ \A k \in 1..Len(check_result.out) :
                      check_result.out[k].pkg # required[1]
               /\ Len(required) = 1 =>
                      /\ check_result.ended = "returned"
                      /\ check_result.out = <<>>
               /\ Len(required) >= 2 =>
                      \/ Len(check_result.checked) >= 2
                      \/ ~catalog[required[2]].known
                      \/ ~catalog[required[2]].platform

\* A satisfied package without a directory path was passed over, and the
\* next one, satisfied but with its directory gone, was reported.
C6_Witness ==
    /\ FirstIsChecked
    /\ Len(required) = 2
    /\ required[1] # required[2]
    /\ FirstEntry.dir = "none"
    /\ HasVersion(FirstEntry)
    /\ catalog[required[2]].dir = "missing"
    /\ check_result.checked = required
    /\ check_result.ended = "SystemExit"
    /\ check_result.out[1] =
           Line("installed_but_missing", required[2], <<>>, <<>>)

\* C7: fail-fast.  When the first name that stops the loop is a package
\* whose single check fails, the call ends as that single check ends,
\* with its output only; the names handed to the single check are the
\* platform packages up to that name, none after it; a user error
\* reports exactly one error line, for that package.
C7_FailFast ==
    check_result.ended # "none" =>
        LET Stops == {i \in 1..Len(required) :
                         ~catalog[required[i]].known \/ Fails(required[i])}
        IN  Stops # {} =>
            LET f == CHOOSE i \in Stops : \A j \in Stops : i <= j
                single == SingleCheck(required[f])
                IsPlatform(n) == catalog[n].platform
            IN  Fails(required[f]) =>
                /\ check_result.ended = single.ended
                /\ check_result.status = single.status
                /\ check_result.out = single.out
                /\ check_result.checked =
                       SelectSeq(SubSeq(required, 1, f), IsPlatform)
                /\ check_result.ended = "SystemExit" =>
                       /\ Cardinality({k \in 1..Len(check_result.out) :
                              check_result.out[k].kind \in ErrorKinds}) = 1
                       /\ \A k \in 1..Len(check_result.out) :
                              check_result.out[k].pkg = required[f]

\* Two different packages that both fail were required; only the first
\* was checked and reported.
C7_Witness ==
    /\ Len(required) = 2
    /\ required[1] # required[2]
    /\ Fails(required[1]) /\ Fails(required[2])
    /\ SingleCheck(required[2]).ended = "SystemExit"
    /\ check_result.ended = "SystemExit"
    /\ check_result.checked = << required[1] >>
    /\ Len(check_result.out) = 2

\* C8 as stated: whenever the required list holds a name that is not in
\* the catalog, the call ends by raising RuntimeError for that name.
C8_AnyUnknownRaises ==
    (/\ check_result.ended # "none"
     /\ \E i \in 1..Len(required) : ~catalog[required[i]].known)
    =>  /\ check_result.ended = "RuntimeError"
        /\ ~catalog[check_result.unknown].known

\* C8 amended: when the required list holds a name that is not in the
\* catalog the call never returns normally and never reports that name
\* as a user error; it raises RuntimeError for the first such name unless
\* the single check of an earlier name already ended the call.
C8_UnknownRaisesUnlessEarlierFails ==
    check_result.ended # "none" =>
        LET Unknown == {i \in 1..Len(required) : ~catalog[required[i]].known}
        IN  Unknown # {} =>
            LET u == CHOOSE i \in Unknown : \A j \in Unknown : i <= j
            IN  /\ check_result.ended # "returned"
                /\ \A k \in 1..Len(check_result.out) :
                       catalog[check_result.out[k].pkg].known
                /\ (\E j \in 1..(u - 1) : Fails(required[j])) <=>
                       check_result.ended # "RuntimeError"
                /\ check_result.ended = "RuntimeError" =>
                       /\ check_result.unknown = required[u]
                       /\ check_result.out = <<>>
                       /\ check_result.status # 1

\* A package that passes its check was followed by an unknown name, and
\* the call raised for that name.
C8_Witness ==
    /\ Len(required) = 2
    /\ catalog[required[1]].known /\ catalog[required[1]].platform
    /\ ~catalog[required[2]].known
    /\ check_result.checked = << required[1] >>
    /\ check_result.ended = "RuntimeError"
    /\ check_result.unknown = required[2]

\* C9: every user error prints the error line of the failing package,
\* then the hint naming that same package, and exits with status 1; the
\* failing package is the last one checked and was checked once.
C9_ErrorThenHintThenExit ==
    check_result.ended = "SystemExit" =>
        /\ check_result.status = 1
        /\ Len(check_result.out) = 2
        /\ check_result.out[1].kind \in ErrorKinds
        /\ check_result.out[2] = Hint(check_result.out[1].pkg)
        /\ Len(check_result.checked) >= 1
        /\ check_result.out[1].pkg =
               check_result.checked[Len(check_result.checked)]
        /\ Cardinality({k \in 1..Len(check_result.checked) :
               check_result.checked[k] = check_result.out[1].pkg}) = 1
        /\ check_result.out[1].kind = "not_installed" <=>
               ~HasVersion(catalog[check_result.out[1].pkg])

\* A version mismatch of the second required package was reported with
\* its hint.
C9_Witness ==
    /\ check_result.ended = "SystemExit"
    /\ Len(check_result.checked) = 2
    /\ check_result.out[1].kind = "version_mismatch"
    /\ check_result.out[2].kind = "install_instructions"
    /\ check_result.out[2].pkg = required[2]

\* C10 as stated: with no constraint for the package in the distribution
\* (the constraint string is empty) every installed version passes the
\* version rule, the call does not raise, and the directory check alone
\* decides.
C10_EmptyConstraintPasses ==
    (/\ FirstIsChecked
     /\ HasVersion(FirstEntry)
     /\ SpecVersion(FirstEntry) = <<>>)
    =>  /\ check_result.ended \in {"returned", "SystemExit", "RuntimeError"}
        /\ \A k \in 1..Len(check_result.out) :
               check_result.out[k].pkg = required[1] =>
                   check_result.out[k].kind # "version_mismatch"
        /\ (FirstEntry.dir = "missing") <=>
               /\ check_result.ended = "SystemExit"
               /\ check_result.checked = << required[1] >>

\* A name of the catalog that does not apply to this platform.
NotForPlatform(name) == catalog[name].known /\ ~catalog[name].platform

IsForPlatformOrUnknown(name) == ~NotForPlatform(name)

\* C12: a required name that is in all_packages but not in
\* platform_packages is skipped silently, whatever its installed version,
\* constraint and directory: no line names it, it is not handed to the
\* single check, a list of such names only returns with no output, and
\* the call ends, prints and checks exactly as it does for the list with
\* those names left out.
C12_NotForPlatformSkipped ==
    check_result.ended # "none" =>
        /\ \A k \in 1..Len(check_result.out) :
               ~NotForPlatform(check_result.out[k].pkg)
        /\ \A k \in 1..Len(check_result.checked) :
               ~NotForPlatform(check_result.checked[k])
        /\ check_result.unknown # "" => ~NotForPlatform(check_result.unknown)
        /\ (\A i \in 1..Len(required) : NotForPlatform(required[i])) =>
               /\ check_result.ended = "returned"
               /\ check_result.out = <<>>
               /\ check_result.checked = <<>>
        /\ check_result =
               check_required_packages(
                   SelectSeq(required, IsForPlatformOrUnknown), catalog)

\* A name not for this platform, with no installed version, a malformed
\* constraint and a missing directory, was passed over and the next
\* name, not installed, was reported.
C12_Witness ==
    /\ Len(required) = 2
    /\ NotForPlatform(required[1])
    /\ ~HasVersion(catalog[required[1]])
    /\ catalog[required[1]].spec = Some(<<"bad">>)
    /\ catalog[required[1]].dir = "missing"
    /\ catalog[required[2]].known /\ catalog[required[2]].platform
    /\ check_result.ended = "SystemExit"
    /\ check_result.checked = << required[2] >>
    /\ check_result.out[1] = Line("not_installed", required[2], <<>>, <<>>)

====
